---- MODULE Spec2Model ----
(***************************************************************************)
(* bro-awk: the streaming pipeline of qreader (Reader.Start, Parser.Start, *)
(* Parser.Parse, Qreader.Parse) and the filter engine of filters (Filter,  *)
(* RegexFilter, FilterSet).                                                *)
(*                                                                         *)
(* A Go string or []byte is a sequence of byte values (integers); a        *)
(* []string is a sequence of such sequences.  Go's 0-based indices are     *)
(* kept as values (end_it, indexmap, print_indices) and shifted by one     *)
(* where a TLA+ sequence is indexed.                                       *)
(***************************************************************************)
EXTENDS Integers, Sequences, FiniteSets, Bags, TLC

\* ------------------------------------------------------------------------
\* Byte values used by the code
\* ------------------------------------------------------------------------
NUL == 0
TAB == 9
NL == 10
BANG == 33
HASH == 35
DOLLAR == 36
COMMA == 44
EQ == 61
CARET == 94
TILDE == 126

\* ------------------------------------------------------------------------
\* Bounds of the model
\* ------------------------------------------------------------------------
\* longest byte stream of a file made of data bytes and newlines
MaxStream == 6
\* longest byte stream of a file that also holds comment markers
MaxMarked == 4
\* largest read block size (Blocksize)
MaxBlock == 3
\* largest parser pool size (ParserPool)
MaxPool == 2
\* capacity of the chunk queue (the code's chansize, 10000, scaled down)
chansize == 2
\* most rule strings given to NewFilterSet
MaxRules == 2
\* most columns of a record handed to the filter engine
MaxCols == 2

\* ------------------------------------------------------------------------
\* Go string helpers (package strings)
\* ------------------------------------------------------------------------
Min(a, b) == IF a < b THEN a ELSE b

\* strings.Index: 1-based position of the first occurrence of sub in s, 0 if none
Index(s, sub) ==
    LET hits == {i \in 1..(Len(s) - Len(sub) + 1) :
                    SubSeq(s, i, i + Len(sub) - 1) = sub}
    IN IF hits = {} THEN 0 ELSE CHOOSE i \in hits : \A j \in hits : i <= j

Contains(s, sub) == Index(s, sub) # 0

\* strings.Split for a non-empty separator: n occurrences give n+1 pieces
RECURSIVE Split(_, _)
Split(s, sep) ==
    LET i == Index(s, sep)
    IN IF i = 0 THEN <<s>>
       ELSE <<SubSeq(s, 1, i - 1)>> \o Split(SubSeq(s, i + Len(sep), Len(s)), sep)

\* strings.Join
RECURSIVE Join(_, _)
Join(parts, sep) ==
    IF Len(parts) = 0 THEN <<>>
    ELSE IF Len(parts) = 1 THEN parts[1]
    ELSE parts[1] \o sep \o Join(Tail(parts), sep)

\* ------------------------------------------------------------------------
\* filters: regular expressions
\* The rules of the model use patterns of the form ^?literal$? only; a
\* compiled pattern is the literal with its two anchors.
\* ------------------------------------------------------------------------
RegexpCompile(v) ==
    LET a == Len(v) >= 1 /\ v[1] = CARET
        rest == IF a THEN Tail(v) ELSE v
        z == Len(rest) >= 1 /\ rest[Len(rest)] = DOLLAR
        lit == IF z THEN SubSeq(rest, 1, Len(rest) - 1) ELSE rest
    IN [start |-> a, lit |-> lit, end |-> z]

MatchString(re, s) ==
    \E i \in 1..(Len(s) + 1) :
        /\ i + Len(re.lit) - 1 <= Len(s)
        /\ SubSeq(s, i, i + Len(re.lit) - 1) = re.lit
        /\ re.start => i = 1
        /\ re.end => i + Len(re.lit) - 1 = Len(s)

\* ------------------------------------------------------------------------
\* filters: NewFilter, NewFilterSet, ApplyHeader
\* ------------------------------------------------------------------------
\* the operator of a rule, looked for in the code's order: != = !~ ~
RuleOp(rule) ==
    IF Contains(rule, <<BANG, EQ>>) THEN <<BANG, EQ>>
    ELSE IF Contains(rule, <<EQ>>) THEN <<EQ>>
    ELSE IF Contains(rule, <<BANG, TILDE>>) THEN <<BANG, TILDE>>
    ELSE IF Contains(rule, <<TILDE>>) THEN <<TILDE>>
    ELSE <<>>

\* A filter is [ok, isregex, negate, fields, values]; ok = FALSE is the
\* os.Exit(1) of a rule that cannot be parsed.
NewFilter(rule) ==
    LET op == RuleOp(rule)
        bad == [ok |-> FALSE, isregex |-> FALSE, negate |-> FALSE,
                fields |-> <<>>, values |-> <<>>]
    IN IF op = <<>> THEN bad
       ELSE LET opsides == Split(rule, op)
            IN IF Len(opsides) # 2 THEN bad
               ELSE LET isregex == op \in {<<BANG, TILDE>>, <<TILDE>>}
                        values == Split(opsides[2], <<COMMA>>)
                    IN [ok |-> TRUE,
                        isregex |-> isregex,
                        negate |-> op \in {<<BANG, EQ>>, <<BANG, TILDE>>},
                        fields |-> Split(opsides[1], <<COMMA>>),
                        values |-> IF isregex
                                   THEN [i \in 1..Len(values) |-> RegexpCompile(values[i])]
                                   ELSE values]

NewFilterSet(params) == [i \in 1..Len(params) |-> NewFilter(params[i])]

\* indexmap: field name -> 0-based column; a repeated name keeps its last column
ApplyHeader(hdr) ==
    [f \in {hdr[i] : i \in 1..Len(hdr)} |->
        (CHOOSE i \in 1..Len(hdr) :
            hdr[i] = f /\ \A j \in 1..Len(hdr) : hdr[j] = f => j <= i) - 1]

\* ------------------------------------------------------------------------
\* filters: Linedata.get, Filter.Passes, RegexFilter.Passes, FilterSet.Passes
\* An evaluation ends "true", "false", "exit" (os.Exit(1) in get: the field
\* has no index) or "panic" (index out of range in get: the record is
\* shorter than the indexed column).
\* ------------------------------------------------------------------------
LinedataGet(imap, data, field) ==
    IF field \notin DOMAIN imap THEN [st |-> "exit", v |-> <<>>]
    ELSE IF imap[field] >= Len(data) THEN [st |-> "panic", v |-> <<>>]
    ELSE [st |-> "ok", v |-> data[imap[field] + 1]]

\* an upper-case ASCII letter as its lower-case letter
FoldByte(b) == IF b \in 65..90 THEN b + 32 ELSE b

\* mutant of Compare: the literal comparison ignores the case of letters
CompareFold(f, a, b) ==
    IF f.isregex
    THEN (IF f.negate THEN ~MatchString(b, a) ELSE MatchString(b, a))
    ELSE LET same == [k \in 1..Len(a) |-> FoldByte(a[k])] = [k \in 1..Len(b) |-> FoldByte(b[k])]
         IN IF f.negate THEN ~same ELSE same

\* compare_function of a filter
Compare(f, a, b) ==
    IF f.isregex
    THEN (IF f.negate THEN ~MatchString(b, a) ELSE MatchString(b, a))
    ELSE (IF f.negate THEN a # b ELSE a = b)

\* the two nested loops of Passes, from field i and value j on
RECURSIVE PassesFrom(_, _, _, _, _)
PassesFrom(f, imap, data, i, j) ==
    IF i > Len(f.fields) THEN "true"
    ELSE IF j > Len(f.values) THEN PassesFrom(f, imap, data, i + 1, 1)
    ELSE LET g == LinedataGet(imap, data, f.fields[i])
         IN IF g.st # "ok" THEN g.st
            ELSE IF ~Compare(f, g.v, f.values[j]) THEN "false"
            ELSE PassesFrom(f, imap, data, i, j + 1)

\* mutant of FilterPasses: a field need only satisfy one of the values
FilterPassesAnyValue(f, imap, data) ==
    IF \E i \in 1..Len(f.fields) : LinedataGet(imap, data, f.fields[i]).st # "ok"
    THEN LinedataGet(imap, data,
                     f.fields[CHOOSE i \in 1..Len(f.fields) :
                                  /\ LinedataGet(imap, data, f.fields[i]).st # "ok"
                                  /\ \A h \in 1..(i - 1) :
                                        LinedataGet(imap, data, f.fields[h]).st = "ok"]).st
    ELSE IF \A i \in 1..Len(f.fields) : \E j \in 1..Len(f.values) :
                Compare(f, LinedataGet(imap, data, f.fields[i]).v, f.values[j])
         THEN "true" ELSE "false"

FilterPasses(f, imap, data) == PassesFrom(f, imap, data, 1, 1)

\* the loop of FilterSet.Passes, from filter k on
RECURSIVE SetPassesFrom(_, _, _, _)
SetPassesFrom(fs, imap, data, k) ==
    IF k > Len(fs) THEN "true"
    ELSE LET r == FilterPasses(fs[k], imap, data)
         IN IF r # "true" THEN r
            ELSE SetPassesFrom(fs, imap, data, k + 1)

\* mutant of FilterSetPasses: the loop stops after the first filter
FilterSetPassesFirst(fs, imap, data) ==
    IF Len(fs) = 0 THEN "true" ELSE FilterPasses(fs[1], imap, data)

FilterSetPasses(fs, imap, data) == SetPassesFrom(fs, imap, data, 1)

\* ------------------------------------------------------------------------
\* State
\* ------------------------------------------------------------------------
VARIABLES
    rest,             \* main: the logs after this one, <<stream, header>> each
    stream,           \* the bytes of the file behind the io.Reader
    header,           \* the field names GetHeader found in the file
    Blocksize,        \* Qreader.Blocksize
    ParserPool,       \* Qreader.ParserPool
    Filter,           \* Qreader.Filter: the filters of the FilterSet
    PrintFields,      \* Qreader.PrintFields
    SelectivePrint,   \* Qreader.SelectivePrint
    PrintIndices,     \* Qreader.PrintIndices
    indexmap,         \* filters.indexmap
    qpc,              \* Qreader.Parse: "new", "running" ("fun": no pipeline)
    rpc,              \* Reader.Start: "idle", "read", "send", "closed"
    pos,              \* bytes of the stream consumed by Read so far
    leftovers,        \* Reader.Start: leftovers
    buffer,           \* Reader.Start: buffer of the current iteration
    end_it,           \* Reader.Start: end_it of the current iteration
    outq,             \* chan1: the chunks in the channel, oldest first
    closed,           \* chan1 has been closed
    limiter,          \* limiter1: number of values in the channel
    ppc,              \* Parser.Start: "idle", "recv", "acquire", "launch", "barrier", "returned"
    fileslice,        \* Parser.Start: the chunk taken by the range loop
    tasks,            \* the Parser.Parse goroutines, in launch order
    output,           \* the lines written to standard output, in order
    fatal,            \* "" while the process runs, else "panic" or "exit"
    sent,             \* history: the chunks sent on chan1, in order
    arg,              \* inputs of a function evaluated on its own
    res               \* its results, <<>> before the evaluation

vars == <<rest, stream, header, Blocksize, ParserPool, Filter, PrintFields,
          SelectivePrint, PrintIndices, indexmap, qpc, rpc, pos, leftovers,
          buffer, end_it, outq, closed, limiter, ppc, fileslice, tasks,
          output, fatal, sent, arg, res>>

settings == <<Blocksize, ParserPool, Filter, PrintFields, SelectivePrint>>
config == <<rest, stream, header, settings>>
readerVars == <<rpc, pos, leftovers, buffer, end_it>>
parserVars == <<ppc, fileslice>>
funVars == <<arg, res>>

\* ------------------------------------------------------------------------
\* Inputs
\* ------------------------------------------------------------------------
SeqsUpTo(S, n) == UNION {[1..k -> S] : k \in 0..n}

\* field names "a" and "b", values "x", "y" and "xy"
FieldA == <<97>>
FieldB == <<98>>
ValX == <<120>>
ValY == <<121>>
ValXY == <<120, 121>>

\* a rule string <fields><op><values>
MkRule(fields, op, values) == Join(fields, <<COMMA>>) \o op \o Join(values, <<COMMA>>)

Ops == {<<EQ>>, <<BANG, EQ>>, <<TILDE>>, <<BANG, TILDE>>}

NoChunk == [id |-> 0, data |-> <<>>]

\* ------------------------------------------------------------------------
\* Qreader.Parse: resolve the print fields, build the index, make the two
\* channels, start the reader goroutine and enter Parser.Start
\* ------------------------------------------------------------------------
\* index of a print field: the last header column of that name, 0 if none
PrintIndex(hdr, field) ==
    LET hits == {i \in 1..Len(hdr) : hdr[i] = field}
    IN IF hits = {} THEN 0
       ELSE (CHOOSE i \in hits : \A j \in hits : j <= i) - 1

QreaderParse ==
    /\ qpc = "new"
    /\ fatal = ""
    /\ PrintIndices' = IF SelectivePrint
                       THEN [i \in 1..Len(PrintFields) |-> PrintIndex(header, PrintFields[i])]
                       ELSE <<>>
    /\ indexmap' = ApplyHeader(header)
    /\ outq' = <<>>
    /\ closed' = FALSE
    /\ limiter' = 0
    /\ rpc' = "read"
    /\ ppc' = "recv"
    /\ qpc' = "running"
    /\ pos' = 0
    /\ leftovers' = <<>>
    /\ buffer' = <<>>
    /\ end_it' = 0
    /\ fileslice' = NoChunk
    /\ tasks' = <<>>
    /\ sent' = <<>>
    /\ UNCHANGED <<config, output, fatal, funVars>>

\* ------------------------------------------------------------------------
\* Reader.Start
\* ------------------------------------------------------------------------
Zeros(n) == [i \in 1..n |-> NUL]

\* the backward scan of a block: the largest end_it in 1..length-1 with
\* buffer[end_it] = '\n', or 0 when the scan reaches offset 0
ScanBlock(buf, length) ==
    LET hits == {e \in 1..(length - 1) : buf[e + 1] = NL}
    IN IF hits = {} THEN 0 ELSE CHOOSE e \in hits : \A d \in hits : d <= e

\* the buffer after a read of `length` bytes at offset p: a fresh zeroed
\* buffer of b bytes whose first `length` bytes are the bytes read
ReadBlock(s, p, b, length) == SubSeq(s, p + 1, p + length) \o Zeros(b - length)

\* mutant of ReaderReadLen: the scan also tests offset 0 of the block
ReaderReadLenScanZero(length) ==
    LET buf == ReadBlock(stream, pos, Blocksize, length)
        e == ScanBlock(buf, length)
    IN /\ pos' = pos + length
       /\ buffer' = buf
       /\ end_it' = e
       /\ IF e = 0 /\ buf[1] # NL
          THEN /\ leftovers' = leftovers \o buf
               /\ rpc' = "read"
          ELSE /\ leftovers' = leftovers \o SubSeq(buf, 1, e)
               /\ rpc' = "send"

\* one iteration of the read loop up to the send, for a read that returns
\* `length` bytes into a fresh zeroed buffer; then the scan
ReaderReadLen(length) ==
    LET buf == ReadBlock(stream, pos, Blocksize, length)
        e == ScanBlock(buf, length)
    IN /\ pos' = pos + length
       /\ buffer' = buf
       /\ end_it' = e
       /\ IF e = 0
          THEN /\ leftovers' = leftovers \o buf
               /\ rpc' = "read"
          ELSE /\ leftovers' = leftovers \o SubSeq(buf, 1, e)
               /\ rpc' = "send"

\* the iteration on a reader that may return any 1..Blocksize bytes (the
\* pipe of the unzipper command, or any io.Reader)
ReaderRead ==
    /\ rpc = "read"
    /\ fatal = ""
    /\ pos < Len(stream)
    /\ \E length \in 1..Min(Blocksize, Len(stream) - pos) : ReaderReadLen(length)
    /\ UNCHANGED <<config, PrintIndices, indexmap, qpc, outq, closed, limiter,
                   parserVars, tasks, output, fatal, sent, funVars>>

\* the iteration on a plain file (os.Open): the read fills the block, or
\* returns what is left of the file
ReaderReadFile ==
    /\ rpc = "read"
    /\ fatal = ""
    /\ pos < Len(stream)
    /\ ReaderReadLen(Min(Blocksize, Len(stream) - pos))
    /\ UNCHANGED <<config, PrintIndices, indexmap, qpc, outq, closed, limiter,
                   parserVars, tasks, output, fatal, sent, funVars>>

\* mutant of ReaderSend: the send does not wait for room in the channel
ReaderSendUnblocked ==
    /\ rpc = "send"
    /\ fatal = ""
    /\ outq' = Append(outq, [id |-> Len(sent) + 1, data |-> leftovers])
    /\ sent' = Append(sent, leftovers)
    /\ leftovers' = SubSeq(buffer, end_it + 2, Len(buffer))
    /\ rpc' = "read"
    /\ UNCHANGED <<config, PrintIndices, indexmap, qpc, pos, buffer, end_it,
                   closed, limiter, parserVars, tasks, output, fatal, funVars>>

\* self.outq <- leftovers, blocked while the channel is full, then the new
\* carry buffer[end_it+1:]
ReaderSend ==
    /\ rpc = "send"
    /\ fatal = ""
    /\ Len(outq) < chansize
    /\ outq' = Append(outq, [id |-> Len(sent) + 1, data |-> leftovers])
    /\ sent' = Append(sent, leftovers)
    /\ leftovers' = SubSeq(buffer, end_it + 2, Len(buffer))
    /\ rpc' = "read"
    /\ UNCHANGED <<config, PrintIndices, indexmap, qpc, pos, buffer, end_it,
                   closed, limiter, parserVars, tasks, output, fatal, funVars>>

\* mutant of ReaderClose: the carry is sent as a last chunk before the close
ReaderCloseFlush ==
    /\ rpc = "read"
    /\ fatal = ""
    /\ pos = Len(stream)
    /\ closed' = TRUE
    /\ rpc' = "closed"
    /\ outq' = Append(outq, [id |-> Len(sent) + 1, data |-> leftovers])
    /\ sent' = Append(sent, leftovers)
    /\ leftovers' = <<>>
    /\ UNCHANGED <<config, PrintIndices, indexmap, qpc, pos, buffer,
                   end_it, limiter, parserVars, tasks, output, fatal, funVars>>

\* a read of zero bytes: leave the loop and close the channel
ReaderClose ==
    /\ rpc = "read"
    /\ fatal = ""
    /\ pos = Len(stream)
    /\ closed' = TRUE
    /\ rpc' = "closed"
    /\ UNCHANGED <<config, PrintIndices, indexmap, qpc, pos, leftovers, buffer,
                   end_it, outq, limiter, parserVars, tasks, output, fatal,
                   sent, funVars>>

\* ------------------------------------------------------------------------
\* Parser.Start: the dispatch loop and the polling barrier
\* ------------------------------------------------------------------------
\* mutant of ParserRecv: the chunk is read but stays in the channel
ParserRecvPeek ==
    /\ ppc = "recv"
    /\ fatal = ""
    /\ outq # <<>>
    /\ fileslice' = Head(outq)
    /\ outq' = outq
    /\ ppc' = "acquire"
    /\ UNCHANGED <<config, PrintIndices, indexmap, qpc, readerVars, closed,
                   limiter, tasks, output, fatal, sent, funVars>>

\* the range loop receives the oldest chunk of the channel
ParserRecv ==
    /\ ppc = "recv"
    /\ fatal = ""
    /\ outq # <<>>
    /\ fileslice' = Head(outq)
    /\ outq' = Tail(outq)
    /\ ppc' = "acquire"
    /\ UNCHANGED <<config, PrintIndices, indexmap, qpc, readerVars, closed,
                   limiter, tasks, output, fatal, sent, funVars>>

\* the range loop ends when the channel is closed and empty
ParserRangeEnd ==
    /\ ppc = "recv"
    /\ fatal = ""
    /\ outq = <<>>
    /\ closed
    /\ ppc' = "barrier"
    /\ UNCHANGED <<config, PrintIndices, indexmap, qpc, readerVars, outq, closed,
                   limiter, fileslice, tasks, output, fatal, sent, funVars>>

\* mutant of LimiterHasRoom: the channel takes one value too many
LimiterHasRoomPlusOne == limiter <= ParserPool

\* self.limiter <- 1 can proceed: the channel of capacity ParserPool has room
LimiterHasRoom == limiter < ParserPool

\* self.limiter <- 1
ParserAcquire ==
    /\ ppc = "acquire"
    /\ fatal = ""
    /\ LimiterHasRoom
    /\ limiter' = limiter + 1
    /\ ppc' = "launch"
    /\ UNCHANGED <<config, PrintIndices, indexmap, qpc, readerVars, outq, closed,
                   fileslice, tasks, output, fatal, sent, funVars>>

\* the goroutine started by `go self.Parse(fileslice)`; raw_lines is the
\* chunk split at newlines, i the 1-based position of the range loop
NewTask(chunk) ==
    [chunk |-> chunk.id, raw_lines |-> Split(chunk.data, <<NL>>), i |-> 1, st |-> "run"]

\* go self.Parse(fileslice)
ParserLaunch ==
    /\ ppc = "launch"
    /\ fatal = ""
    /\ tasks' = Append(tasks, NewTask(fileslice))
    /\ fileslice' = NoChunk
    /\ ppc' = "recv"
    /\ UNCHANGED <<config, PrintIndices, indexmap, qpc, readerVars, outq, closed,
                   limiter, output, fatal, sent, funVars>>

\* mutant of BarrierOpen: the barrier tests the chunk queue, not the limiter
BarrierOpenOnQueue == outq = <<>>

\* the test of the barrier loop: len(self.limiter) == 0
BarrierOpen == limiter = 0

\* the barrier finds the limiter empty and Parser.Start returns
ParserReturn ==
    /\ ppc = "barrier"
    /\ fatal = ""
    /\ BarrierOpen
    /\ ppc' = "returned"
    /\ UNCHANGED <<config, PrintIndices, indexmap, qpc, readerVars, outq, closed,
                   limiter, fileslice, tasks, output, fatal, sent, funVars>>

\* the barrier finds the limiter occupied and sleeps 500 ms
ParserSleep ==
    /\ ppc = "barrier"
    /\ fatal = ""
    /\ ~BarrierOpen
    /\ UNCHANGED vars

\* ------------------------------------------------------------------------
\* Parser.Parse: one step per line of the chunk, then the release
\* ------------------------------------------------------------------------
\* the fields of to_print written from the last print index to the first
ProjectionReversed(ld, indices) ==
    IF \E k \in 1..Len(indices) : indices[k] >= Len(ld) THEN [st |-> "panic", v |-> <<>>]
    ELSE [st |-> "ok",
          v |-> Join([k \in 1..Len(indices) |-> ld[indices[Len(indices) + 1 - k] + 1]],
                     <<TAB>>)]

\* the fields of to_print, or "panic" when a print index is out of range
Projection(ld, indices) ==
    IF \E k \in 1..Len(indices) : indices[k] >= Len(ld) THEN [st |-> "panic", v |-> <<>>]
    ELSE [st |-> "ok",
          v |-> Join([k \in 1..Len(indices) |-> ld[indices[k] + 1]], <<TAB>>)]

\* the body of the range loop for one line: [st, out] with st "skip" (a
\* comment line or a rejected record), "print" (out is the line written),
\* "panic" or "exit"
ParseLine(line, fs, imap, selective, indices) ==
    IF Len(line) = 0 THEN [st |-> "panic", out |-> <<>>]
    ELSE IF line[1] = HASH THEN [st |-> "skip", out |-> <<>>]
    ELSE LET ld == Split(line, <<TAB>>)
             r == FilterSetPasses(fs, imap, ld)
         IN IF r = "false" THEN [st |-> "skip", out |-> <<>>]
            ELSE IF r # "true" THEN [st |-> r, out |-> <<>>]
            ELSE IF selective
                 THEN LET p == Projection(ld, indices)
                      IN IF p.st = "ok" THEN [st |-> "print", out |-> p.v]
                         ELSE [st |-> "panic", out |-> <<>>]
                 ELSE [st |-> "print", out |-> line]

TaskLine(t) ==
    /\ fatal = ""
    /\ tasks[t].st = "run"
    /\ tasks[t].i <= Len(tasks[t].raw_lines)
    /\ LET r == ParseLine(tasks[t].raw_lines[tasks[t].i], Filter, indexmap,
                          SelectivePrint, PrintIndices)
       IN IF r.st \in {"panic", "exit"}
          THEN /\ fatal' = r.st
               /\ tasks' = [tasks EXCEPT ![t].st = r.st]
               /\ output' = output
          ELSE /\ fatal' = fatal
               /\ tasks' = [tasks EXCEPT ![t].i = @ + 1]
               /\ output' = IF r.st = "print" THEN Append(output, r.out) ELSE output
    /\ UNCHANGED <<config, PrintIndices, indexmap, qpc, readerVars, outq, closed,
                   limiter, parserVars, sent, funVars>>

\* <-self.limiter, the last statement of Parse
TaskRelease(t) ==
    /\ fatal = ""
    /\ tasks[t].st = "run"
    /\ tasks[t].i > Len(tasks[t].raw_lines)
    /\ limiter' = limiter - 1
    /\ tasks' = [tasks EXCEPT ![t].st = "done"]
    /\ UNCHANGED <<config, PrintIndices, indexmap, qpc, readerVars, outq, closed,
                   parserVars, output, fatal, sent, funVars>>

\* ------------------------------------------------------------------------
\* The pipeline of one file
\* ------------------------------------------------------------------------
Streams == SeqsUpTo({ValX[1], NL}, MaxStream) \cup SeqsUpTo({ValX[1], NL, HASH}, MaxMarked)
Headers == {<<FieldA>>}
\* no rule, or the rule a=x
RuleSets == {<<>>, <<MkRule(<<FieldA>>, <<EQ>>, <<ValX>>)>>}
PrintChoices == {<<>>}

InitState(s, h, b, p, rules, pf) ==
    /\ stream = s
    /\ header = h
    /\ Blocksize = b
    /\ ParserPool = p
    /\ Filter = NewFilterSet(rules)
    /\ PrintFields = pf
    /\ SelectivePrint = (pf # <<>>)
    /\ PrintIndices = <<>>
    /\ indexmap = << >>
    /\ rpc = "idle"
    /\ pos = 0
    /\ leftovers = <<>>
    /\ buffer = <<>>
    /\ end_it = 0
    /\ outq = <<>>
    /\ closed = FALSE
    /\ limiter = 0
    /\ ppc = "idle"
    /\ fileslice = NoChunk
    /\ tasks = <<>>
    /\ output = <<>>
    /\ fatal = ""
    /\ sent = <<>>

Init ==
    /\ \E s \in Streams, h \in Headers, b \in 1..MaxBlock, p \in 1..MaxPool,
          rules \in RuleSets, pf \in PrintChoices :
           InitState(s, h, b, p, rules, pf)
    /\ rest = <<>>
    /\ qpc = "new"
    /\ arg = <<>>
    /\ res = <<>>

Next ==
    \/ QreaderParse
    \/ ReaderRead
    \/ ReaderSend
    \/ ReaderClose
    \/ ParserRecv
    \/ ParserRangeEnd
    \/ ParserAcquire
    \/ ParserLaunch
    \/ ParserReturn
    \/ ParserSleep
    \/ \E t \in 1..Len(tasks) : TaskLine(t)
    \/ \E t \in 1..Len(tasks) : TaskRelease(t)

Spec == Init /\ [][Next]_vars

\* ------------------------------------------------------------------------
\* Properties of the pipeline
\* ------------------------------------------------------------------------
TaskIds == 1..Len(tasks)

\* tasks launched that have not released their gate slot
InFlight == {t \in TaskIds : tasks[t].st # "done"}

\* tasks launched that have not ended: neither released nor faulted
Running == {t \in TaskIds : tasks[t].st = "run"}

\* C1: at most ParserPool row-processing tasks are launched and have not yet
\* released their gate slot, and when the dispatch loop is about to launch
\* the task of the next chunk fewer than ParserPool tasks are in flight.
C1_GateBound ==
    qpc = "running" =>
        /\ Cardinality(InFlight) <= ParserPool
        /\ limiter <= ParserPool
        /\ ppc = "launch" => Cardinality(InFlight) < ParserPool

\* C1 witness: the pool of two is full and the dispatch loop holds the next
\* chunk, blocked on the gate
C1_Witness ==
    /\ ParserPool = 2
    /\ Cardinality(Running) = 2
    /\ ppc = "acquire"
    /\ ~LimiterHasRoom

\* the state in which Parser.Start may return
C2_Quiescent ==
    /\ closed
    /\ outq = <<>>
    /\ fileslice = NoChunk
    /\ limiter = 0
    /\ \A t \in TaskIds : tasks[t].st = "done"

\* C2: Parser.Start returns only when the chunk queue is closed and drained
\* and every launched task has finished (gate occupancy zero), and no output
\* line is written after it has returned.
C2_ReturnAfterAll ==
    /\ [](ppc = "returned" => C2_Quiescent)
    /\ [][ppc = "returned" => output' = output]_vars

\* C2 witness: Parser.Start has returned after two tasks wrote output
C2_Witness ==
    /\ ppc = "returned"
    /\ Len(tasks) >= 2
    /\ Len(output) >= 2

\* number of places that hold chunk c: the queue, the dispatch loop, the tasks
Holders(c) ==
    Cardinality({k \in 1..Len(outq) : outq[k].id = c})
    + (IF fileslice.id = c THEN 1 ELSE 0)
    + Cardinality({t \in TaskIds : tasks[t].chunk = c})

\* C8: every chunk sent on the queue is in exactly one place, unchanged: in
\* the queue, with the dispatch loop, or with exactly one task; and when
\* Parser.Start has returned as many tasks were launched as chunks were sent.
C8_ChunkOnce ==
    /\ \A c \in 1..Len(sent) : Holders(c) = 1
    /\ \A k \in 1..Len(outq) : outq[k].id \in 1..Len(sent) /\ outq[k].data = sent[outq[k].id]
    /\ fileslice # NoChunk => fileslice.id \in 1..Len(sent) /\ fileslice.data = sent[fileslice.id]
    /\ \A t \in TaskIds : /\ tasks[t].chunk \in 1..Len(sent)
                          /\ tasks[t].raw_lines = Split(sent[tasks[t].chunk], <<NL>>)
    /\ ppc = "returned" => Len(tasks) = Len(sent)

\* C8 witness: Parser.Start has returned and three chunks had been sent
C8_Witness ==
    /\ ppc = "returned"
    /\ Len(sent) = 3
    /\ Len(tasks) = 3

\* the lines of a byte stream read line by line, a final line without a
\* trailing newline left out: all pieces of the split but the last
TerminatedLines(s) ==
    LET pieces == Split(s, <<NL>>)
    IN SubSeq(pieces, 1, Len(pieces) - 1)

\* the chunks re-split on newlines and concatenated in emission order
RECURSIVE ChunkLines(_)
ChunkLines(chunks) ==
    IF chunks = <<>> THEN <<>>
    ELSE Split(Head(chunks), <<NL>>) \o ChunkLines(Tail(chunks))

\* C3 (as claimed): when Reader.Start has closed the queue, the chunks it
\* sent, re-split on newlines and concatenated in emission order, are the
\* newline-terminated lines of the stream in order, whatever the block size
\* and the lengths of the reads.
C3_LinesPreserved ==
    rpc = "closed" => ChunkLines(sent) = TerminatedLines(stream)

\* the output of the chunks processed one after another in emission order,
\* up to the first fault: [ok, out]
RECURSIVE LinesOutput(_, _, _)
LinesOutput(lines, i, acc) ==
    IF i > Len(lines) THEN [ok |-> TRUE, out |-> acc]
    ELSE LET r == ParseLine(lines[i], Filter, indexmap, SelectivePrint, PrintIndices)
         IN IF r.st \in {"panic", "exit"} THEN [ok |-> FALSE, out |-> acc]
            ELSE LinesOutput(lines, i + 1,
                             IF r.st = "print" THEN Append(acc, r.out) ELSE acc)

RECURSIVE SequentialOutput(_, _, _)
SequentialOutput(chunks, k, acc) ==
    IF k > Len(chunks) THEN acc
    ELSE LET c == LinesOutput(Split(chunks[k], <<NL>>), 1, acc)
         IN IF c.ok THEN SequentialOutput(chunks, k + 1, c.out) ELSE c.out

\* a sequence as a multiset
SeqToBag(q) ==
    [x \in {q[k] : k \in 1..Len(q)} |-> Cardinality({k \in 1..Len(q) : q[k] = x})]

\* the file's processing has ended: Parser.Start returned, or the process died
Ended == ppc = "returned" \/ fatal # ""

\* C5 (as claimed): when the file's processing has ended, the multiset of
\* output lines is the one the pool of size 1 gives (the chunks processed one
\* after another), for every pool size and every interleaving of the tasks.
C5_OutputSameForAnyPool ==
    Ended => SeqToBag(output) = SeqToBag(SequentialOutput(sent, 1, <<>>))

\* the same, for the runs that end with Parser.Start returning
C5_OutputSameWhenReturned ==
    ppc = "returned" => SeqToBag(output) = SeqToBag(SequentialOutput(sent, 1, <<>>))

\* C6 (as claimed): no task faults on an empty line: a task whose current
\* line is empty is still running or has moved on.
C6_EmptyLineSkipped ==
    \A t \in TaskIds :
        (tasks[t].i <= Len(tasks[t].raw_lines) /\ tasks[t].raw_lines[tasks[t].i] = <<>>)
            => tasks[t].st = "run"

\* C7 (as claimed): the gate occupancy is the number of tasks launched and
\* not yet ended, normally or by a fault (plus the slot taken for the chunk
\* the dispatch loop is about to launch), and a fault is a fatal error.
C7_GateCountsLiveTasks ==
    /\ limiter = Cardinality(Running) + (IF ppc = "launch" THEN 1 ELSE 0)
    /\ (\E t \in TaskIds : tasks[t].st \in {"panic", "exit"}) => fatal # ""

\* the part of C7 the code keeps: a fault is surfaced as a fatal error, and
\* the occupancy counts the tasks that have not released
C7_FaultIsFatal ==
    /\ limiter = Cardinality(InFlight) + (IF ppc = "launch" THEN 1 ELSE 0)
    /\ (\E t \in TaskIds : tasks[t].st \in {"panic", "exit"}) <=> fatal # ""

\* ------------------------------------------------------------------------
\* Reader.Start as a function of the stream and the block size, every read
\* filling the block as far as the stream goes: the chunks sent, in order
\* ------------------------------------------------------------------------
RECURSIVE ReaderRunFrom(_, _, _, _)
ReaderRunFrom(s, b, p, carry) ==
    IF p = Len(s) THEN <<>>
    ELSE LET length == Min(b, Len(s) - p)
             buf == ReadBlock(s, p, b, length)
             e == ScanBlock(buf, length)
         IN IF e = 0
            THEN ReaderRunFrom(s, b, p + length, carry \o buf)
            ELSE <<carry \o SubSeq(buf, 1, e)>>
                 \o ReaderRunFrom(s, b, p + length, SubSeq(buf, e + 2, Len(buf)))

ReaderRun(s, b) == ReaderRunFrom(s, b, 0, <<>>)

\* no pipeline runs: the state around an evaluation of a function
NoPipeline ==
    /\ InitState(<<>>, <<>>, 1, 1, <<>>, <<>>)
    /\ rest = <<>>
    /\ qpc = "fun"

InitChunk ==
    /\ NoPipeline
    /\ arg \in Streams \X (1..MaxBlock) \X (1..MaxBlock)
    /\ res = <<>>

\* run the reader over the stream with the two block sizes
ChunkEval ==
    /\ qpc = "fun"
    /\ res = <<>>
    /\ res' = <<ReaderRun(arg[1], arg[2]), ReaderRun(arg[1], arg[3])>>
    /\ UNCHANGED <<config, PrintIndices, indexmap, qpc, readerVars, outq, closed,
                   limiter, parserVars, tasks, output, fatal, sent, arg>>

NextChunk == ChunkEval

SpecChunk == InitChunk /\ [][NextChunk]_vars

\* the set of lines of a sequence of chunks
LineSet(chunks) == {ChunkLines(chunks)[k] : k \in 1..Len(ChunkLines(chunks))}

\* C4 (as claimed): the set of lines of the chunks is the same for any two
\* block sizes.
C4_BlockSizeInvariant ==
    res # <<>> => LineSet(res[1]) = LineSet(res[2])

\* ------------------------------------------------------------------------
\* The filter engine on its own: rules, header and record drawn from small
\* sets, the rule strings built from <fields, op, values>
\* ------------------------------------------------------------------------
FieldLists == {<<FieldA>>, <<FieldA, FieldB>>}
ValueLists == {<<ValX>>, <<ValX, ValY>>}
RuleParts == (FieldLists \X Ops \X ValueLists)
                 \cup {<<<<FieldA>>, <<TILDE>>, <<<<CARET>> \o ValX \o <<DOLLAR>>>>>>}
FilterHeaders == {<<FieldA>>, <<FieldA, FieldB>>}
Records == SeqsUpTo({ValX, ValXY}, MaxCols)

RuleString(part) == MkRule(part[1], part[2], part[3])

InitFilter ==
    /\ NoPipeline
    /\ arg \in SeqsUpTo(RuleParts, MaxRules) \X FilterHeaders \X Records
    /\ res = <<>>

\* build the FilterSet from the rule strings, apply the header, evaluate
\* each filter and the set on the record
FilterEval ==
    /\ qpc = "fun"
    /\ res = <<>>
    /\ LET fs == NewFilterSet([k \in 1..Len(arg[1]) |-> RuleString(arg[1][k])])
           imap == ApplyHeader(arg[2])
       IN res' = <<[k \in 1..Len(fs) |-> FilterPasses(fs[k], imap, arg[3])],
                   FilterSetPasses(fs, imap, arg[3])>>
    /\ UNCHANGED <<config, PrintIndices, indexmap, qpc, readerVars, outq, closed,
                   limiter, parserVars, tasks, output, fatal, sent, arg>>

NextFilter == FilterEval

SpecFilter == InitFilter /\ [][NextFilter]_vars

\* the comparison a rule operator asks for
Satisfies(op, a, v) ==
    IF op = <<EQ>> THEN a = v
    ELSE IF op = <<BANG, EQ>> THEN a # v
    ELSE IF op = <<TILDE>> THEN MatchString(RegexpCompile(v), a)
    ELSE ~MatchString(RegexpCompile(v), a)

\* the record has the column the header gives the field, and its value
\* satisfies the operator against v
PairHolds(hdr, data, op, fld, v) ==
    \E c \in 1..Len(hdr) : hdr[c] = fld /\ c <= Len(data) /\ Satisfies(op, data[c], v)

Elems(q) == {q[k] : k \in 1..Len(q)}

C10_SetIsConjunction ==
    res # <<>> =>
        /\ res[2] = "true" <=> \A k \in 1..Len(res[1]) : res[1][k] = "true"
        /\ arg[1] = <<>> => res[2] = "true"

\* C10 witness: a set of two different rules passes the record
C10_Witness ==
    /\ res # <<>>
    /\ Len(arg[1]) = 2
    /\ arg[1][1] # arg[1][2]
    /\ res[2] = "true"

\* ------------------------------------------------------------------------
\* One field, one value: the filters built from f=v and from f!=v on the
\* same record.  The values differ in case and in surrounding blanks.
\* ------------------------------------------------------------------------
\* "X", "x " and " x"
ValUpperX == <<88>>
ValXBlank == <<120, 32>>
ValBlankX == <<32, 120>>

LiteralHeaders == {<<FieldA, FieldB>>, <<FieldB, FieldA>>}
LiteralValues == {ValX, ValUpperX, ValXBlank}
LiteralRecords == SeqsUpTo({ValX, ValUpperX, ValXBlank, ValBlankX, ValXY}, MaxCols)

\* arg is <<field, value, header, record>>
InitLiteral ==
    /\ NoPipeline
    /\ arg \in {FieldA, FieldB} \X LiteralValues \X LiteralHeaders \X LiteralRecords
    /\ res = <<>>

LiteralEval ==
    /\ qpc = "fun"
    /\ res = <<>>
    /\ LET imap == ApplyHeader(arg[3])
           eq == NewFilter(MkRule(<<arg[1]>>, <<EQ>>, <<arg[2]>>))
           ne == NewFilter(MkRule(<<arg[1]>>, <<BANG, EQ>>, <<arg[2]>>))
       IN res' = <<FilterPasses(eq, imap, arg[4]), FilterPasses(ne, imap, arg[4])>>
    /\ UNCHANGED <<config, PrintIndices, indexmap, qpc, readerVars, outq, closed,
                   limiter, parserVars, tasks, output, fatal, sent, arg>>

NextLiteral == LiteralEval

SpecLiteral == InitLiteral /\ [][NextLiteral]_vars

\* the 1-based column the header gives a field (the header's names are distinct)
ColumnOf(hdr, fld) == CHOOSE c \in 1..Len(hdr) : hdr[c] = fld

\* C11: for a record that has the column of f, the filter built from f=v
\* passes iff the record's value of f is exactly v, the filter built from
\* f!=v passes iff it differs from v, and exactly one of the two passes.
C11_LiteralEquality ==
    (res # <<>> /\ ColumnOf(arg[3], arg[1]) <= Len(arg[4])) =>
        LET a == arg[4][ColumnOf(arg[3], arg[1])]
        IN /\ res[1] \in {"true", "false"}
           /\ res[2] \in {"true", "false"}
           /\ res[1] = "true" <=> a = arg[2]
           /\ res[2] = "true" <=> a # arg[2]
           /\ (res[1] = "true") # (res[2] = "true")

\* C11 witness: the value X of the second column is tested against x: the
\* filter b=x rejects the record and b!=x passes it
C11_Witness ==
    /\ res = <<"false", "true">>
    /\ arg[1] = FieldB
    /\ arg[2] = ValX
    /\ arg[3] = <<FieldA, FieldB>>
    /\ arg[4] = <<ValX, ValUpperX>>

\* ------------------------------------------------------------------------
\* A plain log file of rows: a header line ("#", then the field names,
\* standing for the #fields line), then rows of tab-separated values, every
\* line newline-terminated; the block takes the header line or the whole file
\* ------------------------------------------------------------------------
\* most rows of a log file
MaxRows == 2

\* field name "c", in no header
FieldC == <<99>>

\* q.PrintFields of NewQreader for the -p option string
NewQreaderPrintFields(my_print_fields) ==
    IF my_print_fields = <<>> THEN <<>> ELSE Split(my_print_fields, <<COMMA>>)

\* GetHeader on the header line: split on tabs, all but the first piece
GetHeader(field_string) == Tail(Split(field_string, <<TAB>>))

RowHeaderLine == <<HASH, TAB>> \o FieldA \o <<TAB>> \o FieldB

\* rows x<TAB>y and y<TAB>x, the one-column row x, the comment line #x
RowLines == {ValX \o <<TAB>> \o ValY, ValY \o <<TAB>> \o ValX, ValX, <<HASH>> \o ValX}

RowStream(rows) ==
    RowHeaderLine \o <<NL>> \o Join([k \in 1..Len(rows) |-> rows[k] \o <<NL>>], <<>>)

\* <<rule strings, -p option string>>: filters without projection (b=y,
\* b!=y, c=x on the absent field c, a=y before c=x), projections without
\* filter (b,a and c,b with the absent field c)
RowConfigs ==
    {<<rules, <<>>>> : rules \in
        {<<>>,
         <<MkRule(<<FieldB>>, <<EQ>>, <<ValY>>)>>,
         <<MkRule(<<FieldB>>, <<BANG, EQ>>, <<ValY>>)>>,
         <<MkRule(<<FieldC>>, <<EQ>>, <<ValX>>)>>,
         <<MkRule(<<FieldA>>, <<EQ>>, <<ValY>>), MkRule(<<FieldC>>, <<EQ>>, <<ValX>>)>>}}
    \cup {<<<<>>, pf>> : pf \in {Join(<<FieldB, FieldA>>, <<COMMA>>),
                                  Join(<<FieldC, FieldB>>, <<COMMA>>)}}

InitRows ==
    /\ \E rows \in SeqsUpTo(RowLines, MaxRows), cfg \in RowConfigs, p \in 1..MaxPool :
          \E b \in {Len(RowHeaderLine) + 1, Len(RowStream(rows))} :
             InitState(RowStream(rows), GetHeader(RowHeaderLine), b, p,
                       cfg[1], NewQreaderPrintFields(cfg[2]))
    /\ rest = <<>>
    /\ qpc = "new"
    /\ arg = <<>>
    /\ res = <<>>

NextRows ==
    \/ QreaderParse
    \/ ReaderReadFile
    \/ ReaderSend
    \/ ReaderClose
    \/ ParserRecv
    \/ ParserRangeEnd
    \/ ParserAcquire
    \/ ParserLaunch
    \/ ParserReturn
    \/ ParserSleep
    \/ \E t \in 1..Len(tasks) : TaskLine(t)
    \/ \E t \in 1..Len(tasks) : TaskRelease(t)

SpecRows == InitRows /\ [][NextRows]_vars

\* a filter of the set names a field that is not in the header
MissingFilterField ==
    \E k \in 1..Len(Filter) : \E i \in 1..Len(Filter[k].fields) :
        Filter[k].fields[i] \notin Elems(header)

\* C12 (as claimed): when a filter rule names a field absent from the
\* header, nothing is ever read from the file or written to the output, and
\* the file's processing never completes normally.
C12_MissingFieldFatalAtStart ==
    MissingFilterField => (pos = 0 /\ output = <<>> /\ ppc # "returned")

\* the weakest part of C12: with such a rule Parser.Start never returns
C12_MissingFieldNeverCompletes ==
    MissingFilterField => ppc # "returned"

\* a print field is not in the header
MissingPrintField ==
    SelectivePrint /\ \E i \in 1..Len(PrintFields) : PrintFields[i] \notin Elems(header)

\* C13 (as claimed): when a print field is absent from the header no line is
\* ever written for a record (the resolution has failed).
C13_MissingPrintFieldNoOutput ==
    MissingPrintField => output = <<>>

\* the data rows of a file: its newline-terminated lines not beginning with #
DataRows(s) == SelectSeq(TerminatedLines(s), LAMBDA l : l = <<>> \/ l[1] # HASH)

\* the record passes the set of literal filters: for every filter, every
\* field and every value, the record has the field's column and the
\* comparison holds
RecordPasses(fs, hdr, ld) ==
    \A k \in 1..Len(fs) : \A fld \in Elems(fs[k].fields), v \in Elems(fs[k].values) :
        PairHolds(hdr, ld, IF fs[k].negate THEN <<BANG, EQ>> ELSE <<EQ>>, fld, v)

PassingRows(s) ==
    SelectSeq(DataRows(s), LAMBDA l : RecordPasses(Filter, header, Split(l, <<TAB>>)))

\* the file fits in one block, no projection, every filter field in the header
OneBlockNoProjection ==
    /\ Blocksize >= Len(stream)
    /\ ~SelectivePrint
    /\ ~MissingFilterField

\* C15 (as claimed): for a file of a header line and non-empty
\* newline-terminated rows that fits in one block, with no projection, when
\* the processing has ended the output is exactly the multiset of the data
\* rows whose record passes the filter set.
C15_RowsFiltered ==
    (Ended /\ OneBlockNoProjection) => SeqToBag(output) = SeqToBag(PassingRows(stream))

\* every data row has as many columns as the header
FullRows ==
    \A k \in 1..Len(DataRows(stream)) :
        Len(Split(DataRows(stream)[k], <<TAB>>)) = Len(header)

\* the same for the files whose rows all have the header's number of
\* columns, which end with Parser.Start returning
C15_FullRowsFiltered ==
    (Ended /\ OneBlockNoProjection /\ FullRows) =>
        /\ fatal = ""
        /\ SeqToBag(output) = SeqToBag(PassingRows(stream))

\* ------------------------------------------------------------------------
\* Projection as a function of the header, the -p option and the row
\* ------------------------------------------------------------------------
\* most fields of a -p option
MaxPrint == 2

\* headers of distinct field names
ProjectHeaders ==
    {h \in SeqsUpTo({FieldA, FieldB, FieldC}, MaxCols) :
        h # <<>> /\ \A i, j \in 1..Len(h) : h[i] = h[j] => i = j}

\* <<header, requested fields (all in the header, <<>> for no -p), record,
\*   rule strings>>
InitProject ==
    /\ NoPipeline
    /\ \E h \in ProjectHeaders :
         \E req \in SeqsUpTo(Elems(h), MaxPrint) :
           \E ld \in SeqsUpTo({ValX, ValY}, Len(h)) \ {<<>>} :
             \E rules \in {<<>>, <<MkRule(<<FieldA>>, <<EQ>>, <<ValX>>)>>} :
                arg = <<h, req, ld, rules>>
    /\ res = <<>>

\* NewQreader on the -p string and the rules, the index resolution of
\* Qreader.Parse on the header, then the loop body of Parser.Parse on the row
ProjectEval ==
    /\ qpc = "fun"
    /\ res = <<>>
    /\ LET pf == NewQreaderPrintFields(Join(arg[2], <<COMMA>>))
           selective == Join(arg[2], <<COMMA>>) # <<>>
           indices == IF selective
                      THEN [i \in 1..Len(pf) |-> PrintIndex(arg[1], pf[i])]
                      ELSE <<>>
           r == ParseLine(Join(arg[3], <<TAB>>), NewFilterSet(arg[4]),
                          ApplyHeader(arg[1]), selective, indices)
       IN res' = <<r.st, r.out>>
    /\ UNCHANGED <<config, PrintIndices, indexmap, qpc, readerVars, outq, closed,
                   limiter, parserVars, tasks, output, fatal, sent, arg>>

NextProject == ProjectEval

SpecProject == InitProject /\ [][NextProject]_vars

\* the record has every column of the header
FullRecord == Len(arg[3]) = Len(arg[1])

\* C14: for a header of distinct names and requested print fields all in the
\* header, a passing record with all its columns is printed, and the line
\* printed for a record is the record's values of the requested fields,
\* tab-joined in the requested order; with no projection it is the original
\* line unmodified.
C14_ProjectionInRequestedOrder ==
    res # <<>> =>
        /\ (FullRecord /\ RecordPasses(NewFilterSet(arg[4]), arg[1], arg[3]))
              => res[1] = "print"
        /\ res[1] = "print" =>
              res[2] = IF arg[2] = <<>>
                       THEN Join(arg[3], <<TAB>>)
                       ELSE Join([i \in 1..Len(arg[2]) |->
                                     arg[3][ColumnOf(arg[1], arg[2][i])]], <<TAB>>)

\* header b, a; -p a,b; row x<TAB>y: prints y<TAB>x
C14_Witness ==
    /\ arg = <<<<FieldB, FieldA>>, <<FieldA, FieldB>>, <<ValX, ValY>>, <<>>>>
    /\ res = <<"print", ValY \o <<TAB>> \o ValX>>

\* C16 (as claimed): a `=` filter whose fields are all columns of the record
\* passes the record when one of its fields equals one of its values (the
\* README rule id.orig_p,id.resp_p=80,443 on a record with id.resp_p = 443
\* and id.orig_p = 51000).
C16_AnyPairPasses ==
    res # <<>> =>
        \A k \in 1..Len(arg[1]) :
            LET part == arg[1][k]
            IN (/\ part[2] = <<EQ>>
                /\ Elems(part[1]) \subseteq Elems(arg[2])
                /\ Len(arg[3]) = Len(arg[2])
                /\ \E fld \in Elems(part[1]), v \in Elems(part[3]) :
                      PairHolds(arg[2], arg[3], part[2], fld, v))
               => res[1][k] = "true"

\* ------------------------------------------------------------------------
\* main: the loop over the logs of one invocation, q.Parse(log) for each
\* ------------------------------------------------------------------------
\* most logs of an invocation
MaxFiles == 2

\* mutant of MainNext: the next log is taken as soon as the range loop of
\* Parser.Start has ended, without waiting for the barrier
MainNextEarly ==
    /\ ppc \in {"barrier", "returned"}
    /\ fatal = ""
    /\ rest # <<>>
    /\ stream' = Head(rest)[1]
    /\ header' = Head(rest)[2]
    /\ rest' = Tail(rest)
    /\ qpc' = "new"
    /\ UNCHANGED <<settings, PrintIndices, indexmap, readerVars, outq, closed,
                   limiter, parserVars, tasks, output, fatal, sent, funVars>>

\* the next iteration of the loop, once q.Parse (whose last call is
\* Parser.Start) has returned: the next log and the header GetHeader finds
MainNext ==
    /\ ppc = "returned"
    /\ fatal = ""
    /\ rest # <<>>
    /\ stream' = Head(rest)[1]
    /\ header' = Head(rest)[2]
    /\ rest' = Tail(rest)
    /\ qpc' = "new"
    /\ UNCHANGED <<settings, PrintIndices, indexmap, readerVars, outq, closed,
                   limiter, parserVars, tasks, output, fatal, sent, funVars>>

\* logs: the row x<TAB>y under the headers a, b and b, a; two rows under a, b
Logs ==
    {<<ValX \o <<TAB>> \o ValY \o <<NL>>, <<FieldA, FieldB>>>>,
     <<ValX \o <<TAB>> \o ValY \o <<NL>>, <<FieldB, FieldA>>>>,
     <<ValX \o <<TAB>> \o ValY \o <<NL>> \o ValY \o <<TAB>> \o ValX \o <<NL>>,
       <<FieldA, FieldB>>>>}

InitFiles ==
    /\ \E logs \in SeqsUpTo(Logs, MaxFiles) \ {<<>>}, p \in 1..MaxPool,
          rules \in {<<>>, <<MkRule(<<FieldB>>, <<EQ>>, <<ValY>>)>>} :
            /\ InitState(Head(logs)[1], Head(logs)[2], MaxBlock + 1, p, rules, <<>>)
            /\ rest = Tail(logs)
    /\ qpc = "new"
    /\ arg = <<>>
    /\ res = <<>>

NextFiles ==
    \/ MainNext
    \/ QreaderParse
    \/ ReaderRead
    \/ ReaderSend
    \/ ReaderClose
    \/ ParserRecv
    \/ ParserRangeEnd
    \/ ParserAcquire
    \/ ParserLaunch
    \/ ParserReturn
    \/ ParserSleep
    \/ \E t \in 1..Len(tasks) : TaskLine(t)
    \/ \E t \in 1..Len(tasks) : TaskRelease(t)

SpecFiles == InitFiles /\ [][NextFiles]_vars

\* the reader goroutine of the file has not started or has closed its queue
ReaderQuiet == rpc \in {"idle", "closed"}

\* C17: the files are processed one after another. A step that writes the
\* field index or starts a reader is taken only when the reader of the file
\* before has closed its queue and no task is in flight; and while a task is
\* in flight the index is the one built from the header of the task's file.
C17_FilesOneAfterAnother ==
    /\ [](InFlight # {} => indexmap = ApplyHeader(header))
    /\ [][(indexmap' # indexmap \/ (ReaderQuiet /\ ~ReaderQuiet'))
            => (InFlight = {} /\ ReaderQuiet /\ (closed \/ sent = <<>>))]_vars

\* the second file runs with the index of its own header, a task in flight,
\* after the first file's line was output
C17_Witness ==
    /\ rest = <<>>
    /\ output # <<>>
    /\ header = <<FieldB, FieldA>>
    /\ indexmap = ApplyHeader(<<FieldB, FieldA>>)
    /\ InFlight # {}
    /\ Filter # <<>>

\* ------------------------------------------------------------------------
\* The reader on every short stream of x and newline, block sizes
\* 1..MaxBlock, one row task at a time, no filter and no projection
\* ------------------------------------------------------------------------
InitReader ==
    /\ \E s \in SeqsUpTo({ValX[1], NL}, MaxStream), b \in 1..MaxBlock :
          InitState(s, <<FieldA>>, b, 1, <<>>, <<>>)
    /\ rest = <<>>
    /\ qpc = "new"
    /\ arg = <<>>
    /\ res = <<>>

SpecReader == InitReader /\ [][Next]_vars

\* C18: the step that closes the queue, and every step after it, sends no
\* chunk and leaves the carry as it is; a chunk is only sent for a block with
\* a newline at an offset >= 1; the row tasks only ever hold chunks
\* that were sent and the output only lines of such chunks, so the bytes in
\* the carry at end of stream reach neither a task nor the output.
C18_CarryDropped ==
    /\ [][rpc' = "closed" =>
            /\ sent' = sent
            /\ leftovers' = leftovers
            /\ (outq' = outq \/ outq' = Tail(outq))]_vars
    /\ [][sent' # sent => (end_it >= 1 /\ buffer[end_it + 1] = NL)]_vars
    /\ [](\A t \in TaskIds :
            /\ tasks[t].chunk \in 1..Len(sent)
            /\ tasks[t].raw_lines = Split(sent[tasks[t].chunk], <<NL>>))
    /\ [](\A k \in 1..Len(output) :
            \E c \in 1..Len(sent) : \E l \in 1..Len(Split(sent[c], <<NL>>)) :
                output[k] = Split(sent[c], <<NL>>)[l])

\* stream "x", newline, "xx": the file is done, "x" was output and the
\* unterminated "xx" is still in the carry
C18_Witness ==
    /\ stream = <<ValX[1], NL, ValX[1], ValX[1]>>
    /\ ppc = "returned"
    /\ rpc = "closed"
    /\ output = <<ValX>>
    /\ SubSeq(leftovers, 1, 2) = <<ValX[1], ValX[1]>>

\* the bytes the read of this step returned
BytesRead == SubSeq(stream, pos + 1, pos')

\* C19: a read whose block has no newline at an offset >= 1 (its only
\* newline, if any, is at offset 0; every read of one byte is such a block)
\* sends no chunk: the whole block, the newline included, is appended to the
\* carry and the reader goes on to the next read.
C19_NewlineAtOffsetZeroMissed ==
    [][(pos' > pos /\ \A o \in 2..Len(BytesRead) : BytesRead[o] # NL) =>
          /\ rpc' = "read"
          /\ sent' = sent
          /\ outq' = outq
          /\ SubSeq(buffer', 1, Len(BytesRead)) = BytesRead
          /\ leftovers' = leftovers \o buffer']_vars

\* the block newline, x was read whole: newline and x are in the carry,
\* nothing was sent
C19_Witness ==
    /\ rpc = "read"
    /\ pos = 2
    /\ buffer = <<NL, ValX[1]>>
    /\ leftovers = <<NL, ValX[1]>>
    /\ sent = <<>>

\* the chunks sent, each followed by the newline that ended it
RECURSIVE Emitted(_)
Emitted(chunks) ==
    IF chunks = <<>> THEN <<>> ELSE Head(chunks) \o <<NL>> \o Emitted(Tail(chunks))

\* C20 (as claimed): between two reads, and at the end, the chunks sent so
\* far, each followed by its newline, and then the carry are exactly the
\* bytes read from the stream so far.
C20_OnlyBytesRead ==
    rpc \in {"read", "closed"} => Emitted(sent) \o leftovers = SubSeq(stream, 1, pos)

\* the reader is at its send and the queue is full
SendBlocked == rpc = "send" /\ Len(outq) = chansize

\* C21: the chunk queue never holds more than chansize chunks. The chunks in
\* the queue are the last chunks sent, each once and in the order sent (none
\* dropped, none duplicated). While the send is blocked on the full queue the
\* reader keeps the chunk and sends nothing; the send is enabled as soon as
\* the queue has room, and then puts exactly the chunk it held at the end.
C21_QueueBounded ==
    /\ [](Len(outq) <= chansize)
    /\ [](\A k \in 1..Len(outq) :
            /\ outq[k].id = Len(sent) - Len(outq) + k
            /\ outq[k].data = sent[outq[k].id])
    /\ []((rpc = "send" /\ fatal = "") => (ENABLED ReaderSend <=> Len(outq) < chansize))
    /\ [][SendBlocked =>
            /\ sent' = sent
            /\ leftovers' = leftovers
            /\ rpc' = "send"
            /\ (outq' = outq \/ outq' = Tail(outq))]_vars
    /\ [][(rpc = "send" /\ rpc' # "send") =>
            /\ sent' = Append(sent, leftovers)
            /\ outq' = Append(outq, [id |-> Len(sent) + 1, data |-> leftovers])]_vars

\* the third chunk went into the queue after the reader had been blocked on
\* the full queue: the queue is full again, the first chunk was taken
C21_Witness ==
    /\ Len(sent) = chansize + 1
    /\ Len(outq) = chansize
    /\ outq[1].id = 2
    /\ fileslice.id = 1

\* ------------------------------------------------------------------------
\* The pipeline under fair scheduling: each goroutine that can take a step
\* eventually takes one (the reader, the dispatch loop with its barrier, and
\* every row task)
\* ------------------------------------------------------------------------
InitLive ==
    /\ \E s \in SeqsUpTo({ValX[1], NL}, MaxMarked), b \in 1..MaxBlock, p \in 1..MaxPool :
          InitState(s, <<FieldA>>, b, p, <<>>, <<>>)
    /\ rest = <<>>
    /\ qpc = "new"
    /\ arg = <<>>
    /\ res = <<>>

Fairness ==
    /\ WF_vars(QreaderParse)
    /\ WF_vars(ReaderRead \/ ReaderSend \/ ReaderClose)
    /\ WF_vars(ParserRecv \/ ParserRangeEnd \/ ParserAcquire \/ ParserLaunch \/ ParserReturn)
    /\ \A t \in 1..MaxMarked :
          WF_vars(t \in 1..Len(tasks) /\ (TaskLine(t) \/ TaskRelease(t)))

SpecLive == InitLive /\ [][Next]_vars /\ Fairness

\* C22 (as claimed): for every stream and pool size, under fair scheduling
\* the reader eventually closes the queue, from some point on no task holds
\* a slot, and Parser.Start (so Qreader.Parse) eventually returns.
C22_EventuallyReturns ==
    /\ <>closed
    /\ <>[](InFlight = {} /\ limiter = 0)
    /\ <>(ppc = "returned")

\* what does hold: every fair run ends, with Parser.Start returned after the
\* close of the queue or with the process dead of a fault in a row task
C22_EndsOrFaults ==
    <>((ppc = "returned" /\ closed /\ InFlight = {}) \/ fatal # "")

\* the queue is closed once and for good, and nothing is sent after the close
C22_ClosedOnce ==
    [][closed => (closed' /\ sent' = sent /\ rpc' = "closed")]_vars

\* ------------------------------------------------------------------------
\* The pool size of NewQreader, and the pipeline run with it
\* ------------------------------------------------------------------------
\* most processors runtime.NumCPU() reports
MaxCPU == 2

\* q.ParserPool for the requested pool size on a machine of numcpu processors
NewQreaderPool(requested, numcpu) ==
    IF requested <= 0 THEN numcpu - 1 ELSE requested

\* arg keeps <<requested pool size, processors>>
InitPool ==
    /\ \E s \in SeqsUpTo({ValX[1], NL}, MaxMarked), requested \in -1..MaxPool,
          numcpu \in 1..MaxCPU :
            /\ InitState(s, <<FieldA>>, MaxBlock, NewQreaderPool(requested, numcpu),
                         <<>>, <<>>)
            /\ arg = <<requested, numcpu>>
    /\ rest = <<>>
    /\ qpc = "new"
    /\ res = <<>>

SpecPool == InitPool /\ [][Next]_vars

\* C23 (as claimed): the pool size stored is at least 1 for every requested
\* value and every processor count >= 1, so the dispatch loop holding the
\* first chunk with an empty gate can acquire a slot.
C23_PoolAtLeastOne ==
    /\ ParserPool >= 1
    /\ (ppc = "acquire" /\ limiter = 0 /\ fatal = "") => ENABLED ParserAcquire

\* the same for the requests that do not select the default, or on machines
\* of two processors and more
C23_PoolAtLeastOneUnlessOneCPU ==
    (arg[1] >= 1 \/ arg[2] >= 2) =>
        /\ ParserPool >= 1
        /\ (ppc = "acquire" /\ limiter = 0 /\ fatal = "") => ENABLED ParserAcquire

\* with a pool of size 0 no task is ever launched, nothing is output, and
\* Parser.Start returns only for a file of no chunk: it never gets past its
\* first acquire
C23_ZeroPoolStuck ==
    ParserPool = 0 =>
        /\ tasks = <<>>
        /\ output = <<>>
        /\ ppc # "launch"
        /\ ppc \in {"barrier", "returned"} => sent = <<>>

====
